---- MODULE Spec2Model ----
(***************************************************************************)
(* Model of the resumable content workflow: the LangGraph graph of         *)
(* src/workflow/graph.py (nodes, routers, edges, interrupt points, the     *)
(* MemorySaver checkpoints) driven by the HTTP/SSE endpoints of            *)
(* src/webapi/api.py (create, resume, stream) with the request validation  *)
(* of src/webapi/models.py.                                                 *)
(*                                                                         *)
(* Texts (requests, comments, model replies, URLs, reports) are abstracted *)
(* to records [kind, n]: kind says what sort of text it is, n tells two    *)
(* texts of the same kind apart.                                           *)
(***************************************************************************)
EXTENDS Integers, Sequences, FiniteSets, TLC

\* ---------------------------------------------------------------- bounds
\* Node executions that append to a session's history are capped.
MaxHistory == 3
\* Messages one node execution hands to graph.stream(stream_mode="messages").
MaxTokens == 1
\* The cap on a session's history in the specification of two stream calls
\* served at once.
MaxShortHistory == 2
\* The cap on a session's history in the specification of publishing after a
\* review.
MaxPublishHistory == 4
\* The cap on each session's history in the specification of two sessions.
MaxPairHistory == 1
\* The cap on a session's history in the specification of the callers that
\* stay connected.
MaxFairHistory == 3
\* The cap on a session's history in the specification of the long sessions
\* (reviews after content, re-planning and regenerating content).
MaxLongHistory == 5

\* ------------------------------------------------------------ identifiers
\* Thread ids: those uuid4() can return and those a client can send. An id is
\* unknown to the server until a create call has returned it.
Threads == {"t1"}
Ids == Threads
\* Requests to GET /workflow/stream/{thread_id} that can be served at once.
Calls == {"c1"}

\* ------------------------------------------------------------------ texts
Text(k, i) == [kind |-> k, n |-> i]
None == Text("None", 0)
EmptyStr == Text("empty", 0)
\* Python truthiness of an Optional[str]
Truthy(x) == x.kind \notin {"None", "empty"}
\* a or b
Or2(a, b) == IF Truthy(a) THEN a ELSE b

\* Request texts of a create call: a text, the empty text, and no text at all
SomeRequest == Text("request", 1)
Requests == {SomeRequest}
EmptyRequests == {EmptyStr}
SomeComment == Text("comment", 1)

\* ---------------------------------------------------------------- actions
NoAction == "<None>"
ResumeActionLiteral ==
    {"approve_ideation", "feedback_ideation", "approve_content",
     "feedback_content", "run_policy", "run_design", "run_caption",
     "post_linkedin", "post_social_facebook", "post_social_instagram"}
\* Labels a client can put in the body of a resume call: the literal ones,
\* a label of the older protocol, a typo, a differently cased label, none.
ActionInputs ==
    ResumeActionLiteral \cup {"feedback", "aprove_content", " RUN_POLICY ", NoAction}
\* The bodies of the resume calls: every label without a comment, and the
\* labels a client sends at an interrupt to go on or to revise with a comment.
ResumeInputs ==
    {<<a, None>> : a \in ActionInputs}
    \cup {<<a, SomeComment>> :
            a \in {"approve_ideation", "feedback_ideation", "feedback_content"}}

\* (x or "").strip().lower() on the labels above
StripLower(a) ==
    CASE a = NoAction -> ""
      [] a = " RUN_POLICY " -> "run_policy"
      [] OTHER -> a

\* ------------------------------------------------------------------ nodes
WorkNodes ==
    {"ideation_node", "content_generation_node", "policy_review_node",
     "design_review_node", "caption_generation_node", "linkedin_post_node",
     "social_post_node", "node_to_terminate"}
InterruptNodes == {"feedback_ideation", "feedback_content"}
END == "__end__"

\* STREAM_NODES with the closing node added
STREAM_NODES_with_terminate ==
    {"ideation_node", "content_generation_node", "policy_review_node",
     "design_review_node", "caption_generation_node", "linkedin_post_node",
     "social_post_node", "node_to_terminate"}

STREAM_NODES ==
    {"ideation_node", "content_generation_node", "policy_review_node",
     "design_review_node", "caption_generation_node", "linkedin_post_node",
     "social_post_node"}

ReportKeys == {"policy", "design", "caption", "social", "linkedin"}
\* compliance_reports: None and {} both read as the empty mapping
\* (every reader does `state.get("compliance_reports") or {}`).
NoReports == [k \in {} |-> None]

\* WorkflowState after START has written only human_request
InitValues(req) ==
    [human_request |-> req,
     human_comment |-> None,
     status |-> NoAction,
     messages |-> <<>>,
     assistant_response |-> None,
     ideation_brief |-> None,
     content_result |-> None,
     compliance_reports |-> NoReports]

\* An AIMessage appended to state["messages"]
Msg(node, text) == [node |-> node, text |-> text]

\* --------------------------------------------------------------- routers
\* router_after_ideation comparing with the label of the older protocol
router_after_ideation_old_label(state) ==
    LET action == StripLower(state.status)
    IN IF action = "approve" THEN "content_generation_node"
       ELSE "ideation_node"

\* router_after_ideation letting approve_content end the session
router_after_ideation_to_terminate(state) ==
    LET action == StripLower(state.status)
    IN IF action = "approve_ideation" THEN "content_generation_node"
       ELSE IF action = "approve_content" THEN "node_to_terminate"
       ELSE "ideation_node"

\* router_after_content without its run_caption branch
router_after_content_no_caption(state) ==
    LET action == StripLower(state.status)
    IN CASE action = "approve_content" -> "node_to_terminate"
         [] action = "run_policy" -> "policy_review_node"
         [] action = "run_design" -> "design_review_node"
         [] action \in {"post_linkedin", "post_social_facebook",
                        "post_social_instagram"} -> "social_post_node"
         [] OTHER -> "ideation_node"

\* router_after_content sending post_linkedin to the LinkedIn node
router_after_content_linkedin_node(state) ==
    LET action == StripLower(state.status)
    IN CASE action = "approve_content" -> "node_to_terminate"
         [] action = "run_policy" -> "policy_review_node"
         [] action = "run_design" -> "design_review_node"
         [] action = "run_caption" -> "caption_generation_node"
         [] action = "post_linkedin" -> "linkedin_post_node"
         [] action = "post_social_facebook" -> "social_post_node"
         [] action = "post_social_instagram" -> "social_post_node"
         [] OTHER -> "ideation_node"

router_after_ideation(state) ==
    LET action == StripLower(state.status)
    IN IF action = "approve_ideation" THEN "content_generation_node"
       ELSE "ideation_node"

router_after_content(state) ==
    LET action == StripLower(state.status)
    IN CASE action = "approve_content" -> "node_to_terminate"
         [] action = "run_policy" -> "policy_review_node"
         [] action = "run_design" -> "design_review_node"
         [] action = "run_caption" -> "caption_generation_node"
         [] action = "post_linkedin" -> "social_post_node"
         [] action = "post_social_facebook" -> "social_post_node"
         [] action = "post_social_instagram" -> "social_post_node"
         [] OTHER -> "ideation_node"

\* path maps of builder.add_conditional_edges
IdeationEdgeMap ==
    [k \in {"content_generation_node", "ideation_node"} |-> k]
ContentEdgeMap ==
    [k \in {"node_to_terminate", "ideation_node", "policy_review_node",
            "design_review_node", "caption_generation_node",
            "linkedin_post_node", "social_post_node"} |-> k]

RouterAt(interrupt, state) ==
    IF interrupt = "feedback_ideation" THEN router_after_ideation(state)
    ELSE router_after_content(state)
EdgeMapAt(interrupt) ==
    IF interrupt = "feedback_ideation" THEN IdeationEdgeMap ELSE ContentEdgeMap

\* the edges with Plan leading to the second interrupt point
EdgeFrom_plan_to_content(node) ==
    CASE node = "node_to_terminate" -> END
      [] OTHER -> "feedback_content"

\* builder.add_edge(node, ...): the unconditional edge out of a work node
EdgeFrom(node) ==
    CASE node = "ideation_node" -> "feedback_ideation"
      [] node = "node_to_terminate" -> END
      [] OTHER -> "feedback_content"

\* ------------------------------------------------------------------ nodes
\* Every node returns {**state, "messages": state["messages"] + [reply], ...};
\* the add_messages reducer of MessagesState keeps the old entries (same ids)
\* and appends the new one.
NextN(state) == Len(state.messages) + 1

\* `status in ["feedback", "feedback_ideation"] and state.get("human_comment")`
\* with status = (state.get("status") or "approved").lower()
IdeationRevises(state) ==
    LET status == IF state.status = NoAction THEN "approved" ELSE state.status
    IN /\ status \in {"feedback", "feedback_ideation"}
       /\ Truthy(state.human_comment)

\* ideation_node starting the new round without the old content
ideation_node_clears_content(state, marker) ==
    LET response == Text(IF IdeationRevises(state) THEN "revised_plan" ELSE "plan",
                         NextN(state))
        ideation_brief == IF marker THEN Text("brief_after_marker", NextN(state))
                          ELSE response
    IN [state EXCEPT
          !.messages = Append(state.messages, Msg("ideation_node", response)),
          !.assistant_response = response,
          !.ideation_brief = ideation_brief,
          !.content_result = None]

\* ideation_node returning the reports as a new, empty mapping
ideation_node_drops_reports(state, marker) ==
    LET response == Text(IF IdeationRevises(state) THEN "revised_plan" ELSE "plan",
                         NextN(state))
        ideation_brief == IF marker THEN Text("brief_after_marker", NextN(state))
                          ELSE response
    IN [state EXCEPT
          !.messages = Append(state.messages, Msg("ideation_node", response)),
          !.assistant_response = response,
          !.ideation_brief = ideation_brief,
          !.compliance_reports = NoReports]

\* marker: whether the reply contains "GENERATION_PROMPT:"
ideation_node(state, marker) ==
    LET response == Text(IF IdeationRevises(state) THEN "revised_plan" ELSE "plan",
                         NextN(state))
        ideation_brief == IF marker THEN Text("brief_after_marker", NextN(state))
                          ELSE response
    IN [state EXCEPT
          !.messages = Append(state.messages, Msg("ideation_node", response)),
          !.assistant_response = response,
          !.ideation_brief = ideation_brief]

\* content_generation_node keeping a failure message of the agent out of
\* content_result
content_generation_node_skips_error_result(state, kind) ==
    LET result == Text(kind, NextN(state))
    IN [state EXCEPT
          !.messages = Append(state.messages, Msg("content_generation_node", result)),
          !.assistant_response = result,
          !.content_result = IF kind = "error_text" THEN @ ELSE result]

\* content_generation_node storing the reply only as assistant_response
content_generation_node_no_result(state, kind) ==
    LET result == Text(kind, NextN(state))
    IN [state EXCEPT
          !.messages = Append(state.messages, Msg("content_generation_node", result)),
          !.assistant_response = result]

\* content_generation_node marking the plan as approved in status
content_generation_node_sets_status(state, kind) ==
    LET result == Text(kind, NextN(state))
    IN [state EXCEPT
          !.messages = Append(state.messages, Msg("content_generation_node", result)),
          !.assistant_response = result,
          !.content_result = result,
          !.status = "approved"]

\* kind: what agent.chat returned: "image_url", "video_url", or the text of a
\* caught exception, "error_text"
content_generation_node(state, kind) ==
    LET result == Text(kind, NextN(state))
    IN [state EXCEPT
          !.messages = Append(state.messages, Msg("content_generation_node", result)),
          !.assistant_response = result,
          !.content_result = result]

\* reports = dict(state.get("compliance_reports") or {}); reports[key] = value
SetReport(reports, key, value) ==
    [k \in (DOMAIN reports) \cup {key} |-> IF k = key THEN value ELSE reports[k]]

\* a review node that starts from an empty mapping instead of a copy
ReviewNode_fresh_reports(state, node, key, kind) ==
    LET review == Text(kind, NextN(state))
    IN [state EXCEPT
          !.messages = Append(state.messages, Msg(node, review)),
          !.assistant_response = review,
          !.compliance_reports = SetReport(NoReports, key, review)]

\* the three nodes that call an agent and store its reply under one report key
ReviewNode(state, node, key, kind) ==
    LET review == Text(kind, NextN(state))
    IN [state EXCEPT
          !.messages = Append(state.messages, Msg(node, review)),
          !.assistant_response = review,
          !.compliance_reports = SetReport(state.compliance_reports, key, review)]

policy_review_node(state, kind) ==
    ReviewNode(state, "policy_review_node", "policy", kind)
design_review_node(state, kind) ==
    ReviewNode(state, "design_review_node", "design", kind)
caption_generation_node(state, kind) ==
    ReviewNode(state, "caption_generation_node", "caption", kind)

\* the content the review and caption nodes put into their prompt:
\* content_result or assistant_response or human_request or ""
ReviewContent(state) ==
    Or2(state.content_result, Or2(state.assistant_response,
        Or2(state.human_request, EmptyStr)))

\* a locator that prefers the latest reply to the generated content
MediaLocator_prefers_last_output(state) ==
    Or2(state.assistant_response, Or2(state.content_result,
        Or2(state.human_request, EmptyStr)))

\* content_result or assistant_response or human_request or ""
MediaLocator(state) ==
    Or2(state.content_result, Or2(state.assistant_response,
        Or2(state.human_request, EmptyStr)))
\* any(ext in url.lower() for ext in [".mp4", ".mov", ".webm"])
IsVideo(url) == url.kind = "video_url"
\* requests.get(url) can only succeed on an http(s) locator
IsUrl(url) == url.kind \in {"image_url", "video_url"}

SocialPlatform(action) ==
    CASE action \in {"post_social_linkedin", "post_linkedin"} -> "linkedin"
      [] action = "post_social_facebook" -> "facebook"
      [] action = "post_social_instagram" -> "instagram"
      [] OTHER -> "unknown"

\* social_post_node handing a video to the Instagram publisher
SocialOutcome_instagram_video_posts(state, dl_ok, post_ok) ==
    LET url == MediaLocator(state)
        action == StripLower(state.status)
        platform == SocialPlatform(action)
    IN CASE ~(IsUrl(url) /\ dl_ok) -> "social_download_failed"
         [] platform = "unknown" -> "social_failed_unknown_action"
         [] ~post_ok -> "social_failed_publisher"
         [] OTHER -> "social_result"

\* The text social_post_node ends with. dl_ok: the download succeeded;
\* post_ok: the platform publisher returned instead of raising.
SocialOutcome(state, dl_ok, post_ok) ==
    LET url == MediaLocator(state)
        action == StripLower(state.status)
        platform == SocialPlatform(action)
    IN CASE ~(IsUrl(url) /\ dl_ok) -> "social_download_failed"
         [] platform = "unknown" -> "social_failed_unknown_action"
         [] platform = "instagram" /\ IsVideo(url) -> "social_failed_instagram_video"
         [] ~post_ok -> "social_failed_publisher"
         [] OTHER -> "social_result"

\* outcomes in which a platform publisher was called
PublisherCalled(kind) == kind \in {"social_failed_publisher", "social_result"}

\* social_post_node recording the failed download as the social report
social_post_node_reports_download_failure(state, dl_ok, post_ok) ==
    LET kind == SocialOutcome(state, dl_ok, post_ok)
        out == Text(kind, NextN(state))
        all_messages == Append(state.messages, Msg("social_post_node", out))
    IN [state EXCEPT
          !.messages = all_messages,
          !.assistant_response = out,
          !.compliance_reports = SetReport(state.compliance_reports, "social", out)]

social_post_node(state, dl_ok, post_ok) ==
    LET kind == SocialOutcome(state, dl_ok, post_ok)
        out == Text(kind, NextN(state))
        all_messages == Append(state.messages, Msg("social_post_node", out))
    IN IF kind = "social_download_failed"
       THEN [state EXCEPT !.messages = all_messages, !.assistant_response = out]
       ELSE [state EXCEPT
               !.messages = all_messages,
               !.assistant_response = out,
               !.compliance_reports = SetReport(state.compliance_reports, "social", out)]

linkedin_post_node(state, dl_ok, post_ok) ==
    LET url == MediaLocator(state)
        kind == CASE ~(IsUrl(url) /\ dl_ok) -> "linkedin_download_failed"
                  [] ~post_ok -> "linkedin_failed"
                  [] OTHER -> "linkedin_result"
        out == Text(kind, NextN(state))
        all_messages == Append(state.messages, Msg("linkedin_post_node", out))
    IN IF kind = "linkedin_download_failed"
       THEN [state EXCEPT !.messages = all_messages, !.assistant_response = out]
       ELSE [state EXCEPT
               !.messages = all_messages,
               !.assistant_response = out,
               !.compliance_reports = SetReport(state.compliance_reports, "linkedin", out)]

\* node_to_terminate returning its closing message as the whole history
node_to_terminate_clears_history(state) ==
    LET final_msg == Text("closing", NextN(state))
    IN [state EXCEPT
          !.messages = <<Msg("node_to_terminate", final_msg)>>,
          !.assistant_response = final_msg]

node_to_terminate(state) ==
    LET final_msg == Text("closing", NextN(state))
    IN [state EXCEPT
          !.messages = Append(state.messages, Msg("node_to_terminate", final_msg)),
          !.assistant_response = final_msg]

\* What the collaborators of one node execution do: raises says that an
\* exception leaves the node function (the model call of ideation_node and the
\* agent constructors are outside every try block).
Outcome(raises, marker, kind, dl_ok, post_ok) ==
    [raises |-> raises, marker |-> marker, kind |-> kind,
     dl_ok |-> dl_ok, post_ok |-> post_ok]

Outcomes(node) ==
    CASE node = "ideation_node" ->
           {Outcome(TRUE, FALSE, "-", FALSE, FALSE)}
           \cup {Outcome(FALSE, m, "-", FALSE, FALSE) : m \in BOOLEAN}
      [] node = "content_generation_node" ->
           {Outcome(TRUE, FALSE, "-", FALSE, FALSE)}
           \cup {Outcome(FALSE, FALSE, k, FALSE, FALSE) :
                   k \in {"image_url", "video_url", "error_text"}}
      [] node \in {"policy_review_node", "design_review_node",
                   "caption_generation_node"} ->
           {Outcome(TRUE, FALSE, "-", FALSE, FALSE)}
           \cup {Outcome(FALSE, FALSE, k, FALSE, FALSE) :
                   k \in {"report", "error_text"}}
      [] node \in {"social_post_node", "linkedin_post_node"} ->
           {Outcome(FALSE, FALSE, "-", d, p) : d, p \in BOOLEAN}
      [] OTHER -> {Outcome(FALSE, FALSE, "-", FALSE, FALSE)}

\* the node function registered under each name by builder.add_node
RunNode(node, state, o) ==
    CASE node = "ideation_node" -> ideation_node(state, o.marker)
      [] node = "content_generation_node" -> content_generation_node(state, o.kind)
      [] node = "policy_review_node" -> policy_review_node(state, o.kind)
      [] node = "design_review_node" -> design_review_node(state, o.kind)
      [] node = "caption_generation_node" -> caption_generation_node(state, o.kind)
      [] node = "social_post_node" -> social_post_node(state, o.dl_ok, o.post_ok)
      [] node = "linkedin_post_node" -> linkedin_post_node(state, o.dl_ok, o.post_ok)
      [] node = "node_to_terminate" -> node_to_terminate(state)
      [] OTHER -> state

\* ------------------------------------------------------------------ state
VARIABLES
    run_configs,    \* api.run_configs: thread id -> pending create/resume payload
    checkpoints,    \* graph's MemorySaver: thread id -> latest checkpoint
    calls,          \* requests to the stream endpoint that are being served
    issued,         \* thread ids uuid4() has returned so far
    last_response   \* the answer of the latest create / resume / stream request

vars == <<run_configs, checkpoints, calls, issued, last_response>>

\* `thread_id not in run_configs`
NoRun == [type |-> "none", human_request |-> None, action |-> NoAction,
          human_comment |-> None]
StartRun(req) == [type |-> "start", human_request |-> req, action |-> NoAction,
                  human_comment |-> None]
ResumeRun(a, c) == [type |-> "resume", human_request |-> None, action |-> a,
                    human_comment |-> c]

\* A checkpoint: the channel values, the node(s) to run next (state.next; END
\* when there is none) and the node whose superstep was committed last.
NoCheckpoint == [exists |-> FALSE, values |-> InitValues(None), next |-> END,
                 last |-> "-"]
Checkpoint(values, next, last) ==
    [exists |-> TRUE, values |-> values, next |-> next, last |-> last]

\* One request to the stream endpoint: where its event_generator stands (pc),
\* the locals of the handler (thread_id, event_type, input_state and, of
\* run_data, action and human_comment), the position of the checkpoint the
\* handler found (origin), the node graph.stream is executing with the update
\* it returned (node, writes), the messages it still hands over (msgs), the
\* nodes executed (ran) and the events emitted so far (events).
IdleCall == [pc |-> "idle", thread_id |-> "-", event_type |-> "-",
             input_state |-> None, action |-> NoAction, human_comment |-> None,
             origin |-> "-", node |-> "-", writes |-> InitValues(None),
             msgs |-> 0, events |-> <<>>, ran |-> <<>>]

\* Answers: "200" with the pending acknowledgement (or the event stream),
\* "422" a validation error, "500" an exception out of the handler,
\* "error_json" the {"error": ...} body of the stream endpoint.
Response(op, t, code) == [op |-> op, code |-> code]

Init ==
    /\ run_configs = [t \in Ids |-> NoRun]
    /\ checkpoints = [t \in Ids |-> NoCheckpoint]
    /\ calls = [c \in Calls |-> IdleCall]
    /\ issued = {}
    /\ last_response = Response("-", "-", "-")

\* ------------------------------------------------------- request models
\* StartRequest: human_request is a required str (any str, "" included)
StartRequest(req) == req # None

\* ResumeRequest with action declared as a plain str
ResumeRequest_any_str(a) == a # NoAction

\* ResumeRequest: action must be one of the Literal values
ResumeRequest(a) == a \in ResumeActionLiteral

\* ------------------------------------------------------------- endpoints
\* POST /workflow/stream/create
create_workflow_stream(t, req) ==
    \* uuid4() returns an id nobody has used
    /\ t \notin issued
    /\ run_configs[t] = NoRun
    /\ IF StartRequest(req)
       THEN /\ issued' = issued \cup {t}
            /\ run_configs' = [run_configs EXCEPT ![t] = StartRun(req)]
            /\ last_response' = Response("create", t, "200")
       ELSE /\ last_response' = Response("create", "-", "422")
            /\ UNCHANGED <<issued, run_configs>>
    /\ UNCHANGED <<checkpoints, calls>>

\* POST /workflow/stream/resume
resume_workflow_stream(t, a, c) ==
    /\ IF ResumeRequest(a)
       THEN /\ run_configs' = [run_configs EXCEPT ![t] = ResumeRun(a, c)]
            /\ last_response' = Response("resume", t, "200")
       ELSE /\ last_response' = Response("resume", t, "422")
            /\ UNCHANGED run_configs
    /\ UNCHANGED <<checkpoints, calls, issued>>

\* ---------------------------------------------------------------- engine
\* an update_state that also stores the comment as the request
update_state_overwrites_request(cp, action, comment, reroute) ==
    LET values == [cp.values EXCEPT
                     !.status = action,
                     !.human_comment = IF comment # None THEN comment ELSE @,
                     !.human_request = IF comment # None THEN comment ELSE @]
        routed == RouterAt(cp.last, values)
        next == IF cp.last \in InterruptNodes /\ reroute
                     /\ routed \in DOMAIN EdgeMapAt(cp.last)
                THEN EdgeMapAt(cp.last)[routed]
                ELSE cp.next
    IN Checkpoint(values, next, cp.last)

\* graph.update_state(config, {"status": action[, "human_comment": comment]}):
\* the update is applied as if it came from the node that ran last, so that
\* node's outgoing edge (or router, for an interrupt node) picks what runs
\* next. A checkpoint left at a work node (an aborted cycle) may keep that
\* node pending instead (reroute = FALSE).
update_state(cp, action, comment, reroute) ==
    LET values == [cp.values EXCEPT
                     !.status = action,
                     !.human_comment = IF comment # None THEN comment ELSE @]
        routed == RouterAt(cp.last, values)
        next == IF cp.last \in InterruptNodes /\ reroute
                     /\ routed \in DOMAIN EdgeMapAt(cp.last)
                THEN EdgeMapAt(cp.last)[routed]
                ELSE cp.next
    IN Checkpoint(values, next, cp.last)

\* the terminal status event computed from graph.get_state(config).next
StatusOf(cp) ==
    IF cp.next # END
    THEN IF cp.next = "feedback_ideation" THEN "ideation_feedback"
         ELSE IF cp.next = "feedback_content" THEN "content_feedback"
         ELSE "finished"
    ELSE "finished"

Event(kind, data) == [event |-> kind, data |-> data]
StatusEvent(cp) == Event("status", StatusOf(cp))
ErrorEvent == Event("error", "exception")

\* an error handler that reports a status before the error
WithError_after_status(events) ==
    Append(Append(events, Event("status", "finished")), ErrorEvent)

\* `except Exception as e: yield {"event": "error", ...}`
WithError(events) == Append(events, ErrorEvent)

\* The router of an interrupt node returned a name its path map knows
RoutedOk(cp) ==
    cp.next \in InterruptNodes =>
        RouterAt(cp.next, cp.values) \in DOMAIN EdgeMapAt(cp.next)

\* The checkpoint graph.stream(input, config) commits before the first work
\* node runs: START writes the input, or the interrupt node (a no-op) runs
\* and its router picks the next node.
Entered(cp, event_type, input_state) ==
    IF event_type = "start"
    THEN Checkpoint(IF cp.exists
                    THEN [cp.values EXCEPT !.human_request = input_state]
                    ELSE InitValues(input_state),
                    "ideation_node", "__start__")
    ELSE IF cp.next \in InterruptNodes
    THEN Checkpoint(cp.values, EdgeMapAt(cp.next)[RouterAt(cp.next, cp.values)],
                    cp.next)
    ELSE cp

\* The checkpoint committed when the superstep of a work node ends; with
\* interrupt_before the run stops in front of the interrupt node.
Committed(node, writes) == Checkpoint(writes, EdgeFrom(node), node)

\* GET /workflow/stream/{thread_id}: the handler up to the response object
stream_workflow(c, t, reroute) ==
    /\ calls[c].pc = "idle"
    /\ LET run_data == run_configs[t]
           cp == checkpoints[t]
       IN CASE run_data.type = "none" ->
                 /\ last_response' = Response("stream", t, "error_json")
                 /\ UNCHANGED <<checkpoints, calls>>
            [] run_data.type = "start" ->
                 /\ calls' = [calls EXCEPT ![c] =
                        [IdleCall EXCEPT !.pc = "marker", !.thread_id = t,
                                         !.event_type = "start",
                                         !.input_state = run_data.human_request,
                                         !.origin = "__start__"]]
                 /\ last_response' = Response("stream", t, "200")
                 /\ UNCHANGED checkpoints
            [] run_data.type = "resume" /\ ~cp.exists ->
                 \* update_state on a thread without checkpoint raises
                 /\ last_response' = Response("stream", t, "500")
                 /\ UNCHANGED <<checkpoints, calls>>
            [] OTHER ->
                 /\ checkpoints' = [checkpoints EXCEPT ![t] =
                        update_state(cp, run_data.action,
                                     run_data.human_comment, reroute)]
                 /\ calls' = [calls EXCEPT ![c] =
                        [IdleCall EXCEPT !.pc = "marker", !.thread_id = t,
                                         !.event_type = "resume",
                                         !.action = run_data.action,
                                         !.human_comment = run_data.human_comment,
                                         !.origin = cp.next]]
                 /\ last_response' = Response("stream", t, "200")
    /\ UNCHANGED <<run_configs, issued>>

\* event_generator: the initial start / resume event
StreamMarker(c) ==
    /\ calls[c].pc = "marker"
    /\ calls' = [calls EXCEPT ![c].pc = "engine",
                              ![c].events = <<Event(calls[c].event_type,
                                                    calls[c].thread_id)>>]
    /\ UNCHANGED <<run_configs, checkpoints, issued, last_response>>

\* event_generator: graph.stream(...) runs up to its first message, or, when
\* the node hands over no message, to the end of the cycle and the status.
StreamEngineUpTo(c, o, m, cap) ==
    /\ calls[c].pc = "engine"
    /\ LET call == calls[c]
           t == call.thread_id
           cp == checkpoints[t]
           entered == Entered(cp, call.event_type, call.input_state)
           node == entered.next
       IN IF call.event_type # "start" /\ ~RoutedOk(cp)
          THEN \* the branch cannot resolve the router's answer
               /\ calls' = [calls EXCEPT ![c].pc = "cleanup",
                                  ![c].events = WithError(call.events)]
               /\ UNCHANGED checkpoints
          ELSE IF node = END
          THEN \* nothing left to run
               /\ calls' = [calls EXCEPT ![c].pc = "cleanup",
                                  ![c].events = Append(call.events, StatusEvent(entered))]
               /\ UNCHANGED checkpoints
          ELSE /\ Len(entered.values.messages) < cap
               /\ o \in Outcomes(node)
               /\ IF o.raises
                  THEN /\ checkpoints' = [checkpoints EXCEPT ![t] = entered]
                       /\ calls' = [calls EXCEPT ![c].pc = "cleanup",
                                          ![c].node = node,
                                          ![c].ran = <<node>>,
                                          ![c].events = WithError(call.events)]
                  ELSE LET writes == RunNode(node, entered.values, o)
                       IN IF m = 0
                          THEN /\ checkpoints' = [checkpoints EXCEPT ![t] =
                                                    Committed(node, writes)]
                               /\ calls' = [calls EXCEPT ![c].pc = "cleanup",
                                      ![c].node = node,
                                      ![c].ran = <<node>>,
                                      ![c].events = Append(call.events,
                                          StatusEvent(Committed(node, writes)))]
                          ELSE /\ checkpoints' = [checkpoints EXCEPT ![t] = entered]
                               /\ calls' = [calls EXCEPT ![c].pc = "msgs",
                                      ![c].node = node,
                                      ![c].ran = <<node>>,
                                      ![c].writes = writes,
                                      ![c].msgs = m]
    /\ UNCHANGED <<run_configs, issued, last_response>>

StreamEngine(c, o, m) == StreamEngineUpTo(c, o, m, MaxHistory)

\* event_generator: one message of graph.stream: the disconnect check, then a
\* token event when the message comes from one of STREAM_NODES. On disconnect
\* the loop is left and the status is read from the checkpoint as it is.
StreamMsg(c, disconnected) ==
    /\ calls[c].pc = "msgs"
    /\ calls[c].msgs > 0
    /\ LET call == calls[c]
       IN IF disconnected
          THEN calls' = [calls EXCEPT ![c].pc = "cleanup",
                           ![c].events = Append(call.events,
                               StatusEvent(checkpoints[call.thread_id]))]
          ELSE calls' = [calls EXCEPT ![c].msgs = call.msgs - 1,
                           ![c].events = IF call.node \in STREAM_NODES
                                         THEN Append(call.events, Event("token", call.node))
                                         ELSE call.events]
    /\ UNCHANGED <<run_configs, checkpoints, issued, last_response>>

\* event_generator: graph.stream is exhausted: the node's superstep is
\* committed, the run stops at the interrupt (or END), the status is emitted.
StreamFinish(c) ==
    /\ calls[c].pc = "msgs"
    /\ calls[c].msgs = 0
    /\ LET call == calls[c]
           done == Committed(call.node, call.writes)
       IN /\ checkpoints' = [checkpoints EXCEPT ![call.thread_id] = done]
          /\ calls' = [calls EXCEPT ![c].pc = "cleanup",
                           ![c].events = Append(call.events, StatusEvent(done))]
    /\ UNCHANGED <<run_configs, issued, last_response>>

\* an event_generator that ends by emptying run_configs
StreamCleanup_clears_all(c) ==
    /\ calls[c].pc = "cleanup"
    /\ run_configs' = [t \in DOMAIN run_configs |-> NoRun]
    /\ calls' = [calls EXCEPT ![c] = IdleCall]
    /\ UNCHANGED <<checkpoints, issued, last_response>>

\* an event_generator that ends without deleting the pending request
StreamCleanup_keeps_pending(c) ==
    /\ calls[c].pc = "cleanup"
    /\ calls' = [calls EXCEPT ![c] = IdleCall]
    /\ UNCHANGED <<run_configs, checkpoints, issued, last_response>>

\* event_generator: `if thread_id in run_configs: del run_configs[thread_id]`,
\* after the status event and after the error event alike
StreamCleanup(c) ==
    /\ calls[c].pc = "cleanup"
    /\ run_configs' = [run_configs EXCEPT ![calls[c].thread_id] = NoRun]
    /\ calls' = [calls EXCEPT ![c] = IdleCall]
    /\ UNCHANGED <<checkpoints, issued, last_response>>

AllOutcomes == UNION {Outcomes(n) : n \in WorkNodes}

NextOf(requests) ==
    \/ \E t \in Threads, req \in requests \cup {None} : create_workflow_stream(t, req)
    \/ \E t \in Ids, body \in ResumeInputs : resume_workflow_stream(t, body[1], body[2])
    \/ \E c \in Calls, t \in Ids, reroute \in BOOLEAN : stream_workflow(c, t, reroute)
    \/ \E c \in Calls : StreamMarker(c)
    \/ \E c \in Calls, o \in AllOutcomes, m \in 0..MaxTokens : StreamEngine(c, o, m)
    \/ \E c \in Calls, disconnected \in BOOLEAN : StreamMsg(c, disconnected)
    \/ \E c \in Calls : StreamFinish(c)
    \/ \E c \in Calls : StreamCleanup(c)

Next == NextOf(Requests)
Spec == Init /\ [][Next]_vars

\* The same program over longer sessions: the client follows the protocol's
\* labels for approving the plan, reviewing the content and asking for a new
\* plan, and the history may grow to MaxLongHistory entries.
LongInputs ==
    {<<a, None>> : a \in {"approve_ideation", "feedback_content",
                          "run_policy", "run_design", "run_caption"}}
StreamEngineLong(c, o, m) == StreamEngineUpTo(c, o, m, MaxLongHistory)
NextLong ==
    \/ \E t \in Threads, req \in Requests : create_workflow_stream(t, req)
    \/ \E t \in Ids, body \in LongInputs : resume_workflow_stream(t, body[1], body[2])
    \/ \E c \in Calls, t \in Ids, reroute \in BOOLEAN : stream_workflow(c, t, reroute)
    \/ \E c \in Calls : StreamMarker(c)
    \/ \E c \in Calls, o \in AllOutcomes, m \in 0..MaxTokens : StreamEngineLong(c, o, m)
    \/ \E c \in Calls, disconnected \in BOOLEAN : StreamMsg(c, disconnected)
    \/ \E c \in Calls : StreamFinish(c)
    \/ \E c \in Calls : StreamCleanup(c)
SpecLong == Init /\ [][NextLong]_vars

\* The same program serving two requests to the stream endpoint at once (the
\* handler is a coroutine: another request is served whenever one is waiting
\* in a yield or in request.is_disconnected()). The client approves the plan
\* or asks for another one.
TwoCalls == {"c1", "c2"}
TwoCallsInputs ==
    {<<a, None>> : a \in {"approve_ideation", "feedback_ideation"}}
InitTwoCalls ==
    /\ run_configs = [t \in Ids |-> NoRun]
    /\ checkpoints = [t \in Ids |-> NoCheckpoint]
    /\ calls = [c \in TwoCalls |-> IdleCall]
    /\ issued = {}
    /\ last_response = Response("-", "-", "-")
StreamEngineShort(c, o, m) == StreamEngineUpTo(c, o, m, MaxShortHistory)
NextTwoCalls ==
    \/ \E t \in Threads, req \in Requests : create_workflow_stream(t, req)
    \/ \E t \in Ids, body \in TwoCallsInputs :
          resume_workflow_stream(t, body[1], body[2])
    \/ \E c \in TwoCalls, t \in Ids, reroute \in BOOLEAN : stream_workflow(c, t, reroute)
    \/ \E c \in TwoCalls : StreamMarker(c)
    \/ \E c \in TwoCalls, o \in AllOutcomes, m \in 0..MaxTokens :
          StreamEngineShort(c, o, m)
    \/ \E c \in TwoCalls, disconnected \in BOOLEAN : StreamMsg(c, disconnected)
    \/ \E c \in TwoCalls : StreamFinish(c)
    \/ \E c \in TwoCalls : StreamCleanup(c)
SpecTwoCalls == InitTwoCalls /\ [][NextTwoCalls]_vars

\* The same program over sessions in which the content is reviewed and then
\* published: the history may grow to MaxPublishHistory entries.
PublishInputs ==
    {<<a, None>> : a \in {"approve_ideation", "run_policy",
                          "post_social_facebook", "post_social_instagram"}}
StreamEnginePublish(c, o, m) == StreamEngineUpTo(c, o, m, MaxPublishHistory)
NextPublish ==
    \/ \E t \in Threads, req \in Requests : create_workflow_stream(t, req)
    \/ \E t \in Ids, body \in PublishInputs :
          resume_workflow_stream(t, body[1], body[2])
    \/ \E c \in Calls, t \in Ids, reroute \in BOOLEAN : stream_workflow(c, t, reroute)
    \/ \E c \in Calls : StreamMarker(c)
    \/ \E c \in Calls, o \in AllOutcomes, m \in 0..MaxTokens :
          StreamEnginePublish(c, o, m)
    \/ \E c \in Calls, disconnected \in BOOLEAN : StreamMsg(c, disconnected)
    \/ \E c \in Calls : StreamFinish(c)
    \/ \E c \in Calls : StreamCleanup(c)
SpecPublish == Init /\ [][NextPublish]_vars

\* The same program with two sessions: two thread ids uuid4() can return, and
\* two requests to the stream endpoint served at once. The clients approve
\* the plan.
TwoThreads == {"t1", "t2"}
TwoThreadsInputs == {<<"approve_ideation", None>>}
InitTwoThreads ==
    /\ run_configs = [t \in TwoThreads |-> NoRun]
    /\ checkpoints = [t \in TwoThreads |-> NoCheckpoint]
    /\ calls = [c \in TwoCalls |-> IdleCall]
    /\ issued = {}
    /\ last_response = Response("-", "-", "-")
StreamEnginePair(c, o, m) == StreamEngineUpTo(c, o, m, MaxPairHistory)
NextTwoThreads ==
    \/ \E t \in TwoThreads, req \in Requests : create_workflow_stream(t, req)
    \/ \E t \in TwoThreads, body \in TwoThreadsInputs :
          resume_workflow_stream(t, body[1], body[2])
    \/ \E c \in TwoCalls, t \in TwoThreads, reroute \in BOOLEAN :
          stream_workflow(c, t, reroute)
    \/ \E c \in TwoCalls : StreamMarker(c)
    \/ \E c \in TwoCalls, o \in AllOutcomes, m \in 0..MaxTokens :
          StreamEnginePair(c, o, m)
    \/ \E c \in TwoCalls, disconnected \in BOOLEAN : StreamMsg(c, disconnected)
    \/ \E c \in TwoCalls : StreamFinish(c)
    \/ \E c \in TwoCalls : StreamCleanup(c)
SpecTwoThreads == InitTwoThreads /\ [][NextTwoThreads]_vars

\* The same program with callers that stay connected and collaborators that
\* return or raise: request.is_disconnected() is always false, and a
\* generator that has been started is driven to its end (sse-starlette
\* iterates it as long as the caller reads). A stream call is served only
\* while the session's history is below MaxFairHistory, so that the cap never
\* holds a started cycle back.
FairInputs ==
    {<<a, None>> : a \in {"approve_ideation", "approve_content", "run_policy"}}
StreamEngineFair(c, o, m) == StreamEngineUpTo(c, o, m, MaxFairHistory)
stream_workflow_capped(c, t, reroute) ==
    /\ Len(checkpoints[t].values.messages) < MaxFairHistory
    /\ stream_workflow(c, t, reroute)
NextFair ==
    \/ \E t \in Threads, req \in Requests : create_workflow_stream(t, req)
    \/ \E t \in Ids, body \in FairInputs :
          resume_workflow_stream(t, body[1], body[2])
    \/ \E c \in Calls, t \in Ids, reroute \in BOOLEAN :
          stream_workflow_capped(c, t, reroute)
    \/ \E c \in Calls : StreamMarker(c)
    \/ \E c \in Calls, o \in AllOutcomes, m \in 0..MaxTokens :
          StreamEngineFair(c, o, m)
    \/ \E c \in Calls : StreamMsg(c, FALSE)
    \/ \E c \in Calls : StreamFinish(c)
    \/ \E c \in Calls : StreamCleanup(c)
SpecFair ==
    /\ Init
    /\ [][NextFair]_vars
    /\ WF_vars(\E c \in Calls : StreamMarker(c))
    /\ WF_vars(\E c \in Calls, o \in AllOutcomes, m \in 0..MaxTokens :
                  StreamEngineFair(c, o, m))
    /\ WF_vars(\E c \in Calls : StreamMsg(c, FALSE))
    /\ WF_vars(\E c \in Calls : StreamFinish(c))
    /\ WF_vars(\E c \in Calls : StreamCleanup(c))

\* The same program when the client sends the empty request text
NextEmptyRequest == NextOf(EmptyRequests)
SpecEmptyRequest == Init /\ [][NextEmptyRequest]_vars

\* ------------------------------------------------------------ vocabulary
\* The session's engine position: paused at an interrupt point, finished
\* (Terminate ran and nothing is left to run), or ready at a work node.
PausedAt(t, interrupt) ==
    checkpoints[t].exists /\ checkpoints[t].next = interrupt
Paused(t) == \E i \in InterruptNodes : PausedAt(t, i)
Finished(t) ==
    /\ checkpoints[t].exists
    /\ checkpoints[t].next = END
    /\ checkpoints[t].last = "node_to_terminate"
InFlight(t) == \E c \in Calls : calls[c].pc # "idle" /\ calls[c].thread_id = t

\* The cycle of call c is a resume cycle that found the session paused at
\* the interrupt and has had graph.stream pick and run a node.
ResumedFrom(c, interrupt) ==
    /\ calls[c].event_type = "resume"
    /\ calls[c].origin = interrupt
    /\ calls[c].ran # <<>>

\* The cycle of call c has emitted its terminal event
Ended(c) == calls[c].pc = "cleanup"
Terminal(c) == calls[c].events[Len(calls[c].events)]
EndedWithStatus(c, status) ==
    Ended(c) /\ Terminal(c) = Event("status", status)
EndedWithError(c) == Ended(c) /\ Terminal(c).event = "error"

\* An exception left the node function the cycle of call c was executing
Raised(c) == EndedWithError(c) /\ calls[c].ran # <<>>
\* The loop over graph.stream was left by `break`: messages were still to come
Disconnected(c) == Ended(c) /\ calls[c].msgs > 0
\* The cycle of call c executed a node, the node returned and the stream was
\* read to its end
RanToEnd(c) ==
    Ended(c) /\ calls[c].ran # <<>> /\ ~Raised(c) /\ ~Disconnected(c)

\* ------------------------------------------------------------------ C1
\* C1: a resume cycle that found the session paused before feedback_ideation
\* runs content_generation_node when the resume's action is approve_ideation
\* and ideation_node for every other action.
C1_IdeationRouting ==
    \A c \in Calls :
        ResumedFrom(c, "feedback_ideation") =>
            calls[c].node = IF calls[c].action = "approve_ideation"
                            THEN "content_generation_node"
                            ELSE "ideation_node"

C1_Witness ==
    \E c \in Calls :
        /\ ResumedFrom(c, "feedback_ideation")
        /\ calls[c].action = "approve_ideation"
        /\ calls[c].node = "content_generation_node"

\* ------------------------------------------------------------------ C2
C2_Expected(a) ==
    CASE a = "approve_content" -> "node_to_terminate"
      [] a = "run_policy" -> "policy_review_node"
      [] a = "run_design" -> "design_review_node"
      [] a = "run_caption" -> "caption_generation_node"
      [] a = "post_linkedin" -> "social_post_node"
      [] a = "post_social_facebook" -> "social_post_node"
      [] a = "post_social_instagram" -> "social_post_node"
      [] OTHER -> "ideation_node"

\* C2: a resume cycle that found the session paused before feedback_content
\* runs the node the table above gives for the resume's action: Terminate,
\* the reviews, Caption, Publish for the three publish labels, Plan otherwise.
C2_ContentRouting ==
    \A c \in Calls :
        ResumedFrom(c, "feedback_content") =>
            calls[c].node = C2_Expected(calls[c].action)

C2_Witness ==
    \E c \in Calls :
        /\ ResumedFrom(c, "feedback_content")
        /\ calls[c].action = "run_caption"
        /\ calls[c].node = "caption_generation_node"

\* ------------------------------------------------------------------ C3
\* C3: routing is total: in every paused checkpoint, whatever label the status
\* holds (none included), the router of that interrupt point answers with a
\* key of the path map registered for it; and no cycle ends with an error
\* before a node ran, which is what a missing route would produce.
C3_RoutingTotal ==
    /\ \A t \in Ids :
          Paused(t) =>
              \A a \in ActionInputs :
                  RouterAt(checkpoints[t].next,
                           [checkpoints[t].values EXCEPT !.status = a])
                      \in DOMAIN EdgeMapAt(checkpoints[t].next)
    /\ \A c \in Calls : EndedWithError(c) => calls[c].ran # <<>>

\* the fallback branch taken at the second interrupt point
C3_Witness ==
    \E c \in Calls :
        /\ ResumedFrom(c, "feedback_content")
        /\ calls[c].action = "approve_ideation"
        /\ calls[c].node = "ideation_node"
        /\ Ended(c)

\* ------------------------------------------------------------------ C4
\* the cycle of the scenario: paused at content feedback, resumed with
\* feedback_content and a comment
C4_Cycle(c) ==
    /\ ResumedFrom(c, "feedback_content")
    /\ calls[c].action = "feedback_content"
    /\ calls[c].human_comment = SomeComment

\* Plan's update of this cycle is in the checkpoint: the last history entry is
\* Plan's reply and the brief was cut from it
BriefIsNew(t) ==
    LET v == checkpoints[t].values
    IN /\ Len(v.messages) > 0
       /\ v.messages[Len(v.messages)].node = "ideation_node"
       /\ v.ideation_brief.n = Len(v.messages)

\* C4 as stated: the cycle that produced the new brief ends with the status
\* content_feedback.
C4_EndsAtContentFeedback ==
    \A c \in Calls :
        (C4_Cycle(c) /\ Ended(c) /\ BriefIsNew(calls[c].thread_id)) =>
            EndedWithStatus(c, "content_feedback")

\* C4 amended: the cycle runs Plan; it ends with the status ideation_feedback,
\* paused before feedback_ideation with a new brief, when Plan returns and the
\* stream is read to its end; otherwise (the model call raises, or the caller
\* disconnects) it ends with an error event or with the status finished, Plan
\* still pending and the brief not replaced. It never ends with
\* content_feedback.
C4_EndsAtIdeationFeedback ==
    \A c \in Calls :
        C4_Cycle(c) =>
            /\ calls[c].node = "ideation_node"
            /\ Ended(c) =>
                 LET t == calls[c].thread_id
                 IN \/ /\ EndedWithStatus(c, "ideation_feedback")
                       /\ PausedAt(t, "feedback_ideation")
                       /\ BriefIsNew(t)
                    \/ /\ EndedWithError(c) \/ EndedWithStatus(c, "finished")
                       /\ checkpoints[t].next = "ideation_node"
                       /\ ~BriefIsNew(t)

C4_Witness ==
    \E c \in Calls :
        /\ C4_Cycle(c)
        /\ EndedWithStatus(c, "ideation_feedback")
        /\ BriefIsNew(calls[c].thread_id)

\* ------------------------------------------------------------------ C5
C5_NoInvalidStored ==
    \A t \in Ids :
        /\ run_configs[t].type = "resume" =>
               run_configs[t].action \in ResumeActionLiteral
        /\ checkpoints[t].values.status \in ResumeActionLiteral \cup {NoAction}

C5_RejectStep ==
    \A t \in Ids, body \in ResumeInputs :
        (body[1] \notin ResumeActionLiteral
           /\ resume_workflow_stream(t, body[1], body[2])) =>
            /\ last_response' = Response("resume", t, "422")
            /\ UNCHANGED <<run_configs, checkpoints, calls>>

\* C5: a resume whose action is outside the closed set is answered with a
\* validation error and changes neither the pending requests nor any
\* checkpoint; no pending request and no checkpoint ever holds such a label.
C5_InvalidActionRejected == []C5_NoInvalidStored /\ [][C5_RejectStep]_vars

C5_Witness ==
    /\ last_response = Response("resume", "t1", "422")
    /\ \E t \in Ids : Paused(t) /\ run_configs[t] = NoRun

\* ------------------------------------------------------------------ C6
\* C6: no pending start request and no checkpoint holds an empty request.
C6_NoEmptyRequest ==
    \A t \in Ids :
        /\ run_configs[t].type = "start" => Truthy(run_configs[t].human_request)
        /\ checkpoints[t].exists => Truthy(checkpoints[t].values.human_request)

\* ------------------------------------------------------------------ C7
\* C7: a resume registers a pending request only for a session that is paused
\* at an interrupt point with no cycle in flight.
C7_ResumeOnlyWhenPaused ==
    [][\A t \in Ids :
          (run_configs'[t].type = "resume" /\ run_configs'[t] # run_configs[t])
              => (Paused(t) /\ ~InFlight(t))]_vars

\* ------------------------------------------------------------------ C8
\* C8: once a session is finished no resume registers a pending request for
\* it and its checkpoint does not change any more.
C8_FinishedIsFinal ==
    [][\A t \in Ids :
          Finished(t) =>
              /\ checkpoints'[t] = checkpoints[t]
              /\ run_configs'[t] \in {run_configs[t], NoRun}]_vars

\* ------------------------------------------------------------------ C9
\* position of a node in the order of execution
C9_Pos(ran, node) ==
    IF \E i \in 1..Len(ran) : ran[i] = node
    THEN CHOOSE i \in 1..Len(ran) : ran[i] = node
    ELSE 0

\* C9: the events of a cycle are one start/resume marker, then token events
\* of the executed nodes in execution order, then one terminal event (status
\* or error) that is last; a terminal event is there exactly when the cycle
\* has ended.
C9_EventOrder ==
    \A c \in Calls :
        LET e == calls[c].events
            n == Len(e)
        IN /\ (n = 0) <=> (calls[c].pc \in {"idle", "marker"})
           /\ n > 0 => /\ e[1] = Event(calls[c].event_type, calls[c].thread_id)
                       /\ e[1].event \in {"start", "resume"}
           /\ \A i \in 2..n : e[i].event \in {"token", "status", "error"}
           /\ \A i \in 1..(n - 1) : e[i].event \notin {"status", "error"}
           /\ Ended(c) <=> (n > 0 /\ e[n].event \in {"status", "error"})
           /\ \A i \in 1..n :
                 e[i].event = "token" =>
                     /\ C9_Pos(calls[c].ran, e[i].data) > 0
                     /\ \A j \in i..n :
                           e[j].event = "token" =>
                               C9_Pos(calls[c].ran, e[i].data)
                                   <= C9_Pos(calls[c].ran, e[j].data)

C9_Witness ==
    \E c \in Calls :
        /\ Ended(c)
        /\ Len(calls[c].events) = 3
        /\ calls[c].events[2] = Event("token", "ideation_node")
        /\ calls[c].events[3].event = "status"

\* ------------------------------------------------------------------ C10
\* C10: the status a cycle ends with is ideation_feedback exactly when the
\* session is paused before feedback_ideation, content_feedback exactly when
\* it is paused before feedback_content, and finished only when the session
\* has finished.
C10_StatusReflectsPosition ==
    \A c \in Calls :
        (Ended(c) /\ Terminal(c).event = "status") =>
            LET t == calls[c].thread_id
                status == Terminal(c).data
            IN /\ (status = "ideation_feedback") <=> PausedAt(t, "feedback_ideation")
               /\ (status = "content_feedback") <=> PausedAt(t, "feedback_content")
               /\ (status = "finished") => Finished(t)

\* ------------------------------------------------------------------ C11
\* C11: the cycle of a new session (the start cycle) executes Plan and nothing
\* else; when Plan returns and the stream is read to its end it ends with the
\* status ideation_feedback, paused before feedback_ideation with the brief
\* set. The cycle of a following resume approve_ideation executes
\* GenerateContent and nothing else; when it runs to its end it ends with the
\* status content_feedback, paused before feedback_content with content_result
\* set.
C11_HappyPath ==
    \A c \in Calls :
        LET t == calls[c].thread_id
            v == checkpoints[t].values
            first == calls[c].event_type = "start" /\ calls[c].ran # <<>>
            second == /\ ResumedFrom(c, "feedback_ideation")
                      /\ calls[c].action = "approve_ideation"
        IN /\ first => calls[c].ran = <<"ideation_node">>
           /\ (first /\ RanToEnd(c)) =>
                 /\ EndedWithStatus(c, "ideation_feedback")
                 /\ PausedAt(t, "feedback_ideation")
                 /\ Truthy(v.ideation_brief)
                 /\ Len(v.messages) = 1
           /\ second => calls[c].ran = <<"content_generation_node">>
           /\ (second /\ RanToEnd(c)) =>
                 /\ EndedWithStatus(c, "content_feedback")
                 /\ PausedAt(t, "feedback_content")
                 /\ Truthy(v.content_result)

\* the second cycle of the scenario has ended, right after the first
C11_Witness ==
    \E c \in Calls :
        LET v == checkpoints[calls[c].thread_id].values
        IN /\ ResumedFrom(c, "feedback_ideation")
           /\ calls[c].action = "approve_ideation"
           /\ RanToEnd(c)
           /\ EndedWithStatus(c, "content_feedback")
           /\ [i \in 1..Len(v.messages) |-> v.messages[i].node]
                 = <<"ideation_node", "content_generation_node">>
           /\ v.content_result.kind = "image_url"

\* ------------------------------------------------------------------ C12
\* the report key each node is responsible for
C12_Key(node) ==
    CASE node = "policy_review_node" -> "policy"
      [] node = "design_review_node" -> "design"
      [] node = "caption_generation_node" -> "caption"
      [] node = "social_post_node" -> "social"
      [] node = "linkedin_post_node" -> "linkedin"
      [] OTHER -> "-"

C12_ReviewOf(a) ==
    CASE a = "run_policy" -> "policy_review_node"
      [] a = "run_design" -> "design_review_node"
      [] a = "run_caption" -> "caption_generation_node"
      [] OTHER -> "-"

\* the resume cycles of the claim: paused at content feedback, resumed with
\* run_policy, run_design or run_caption
C12_Cycle(c) ==
    /\ ResumedFrom(c, "feedback_content")
    /\ calls[c].action \in {"run_policy", "run_design", "run_caption"}

C12_EndsAtContentFeedback ==
    \A c \in Calls :
        C12_Cycle(c) =>
            /\ calls[c].ran = <<C12_ReviewOf(calls[c].action)>>
            /\ RanToEnd(c) =>
                 LET t == calls[c].thread_id
                     v == checkpoints[t].values
                 IN /\ EndedWithStatus(c, "content_feedback")
                    /\ PausedAt(t, "feedback_content")
                    /\ C12_Key(calls[c].node) \in DOMAIN v.compliance_reports
                    /\ v.compliance_reports[C12_Key(calls[c].node)]
                          = v.messages[Len(v.messages)].text

\* a step that commits the update of a node: the history grew by its entry
C12_ReportStep ==
    \A t \in Ids :
        LET old == checkpoints[t].values
            new == checkpoints'[t].values
            node == checkpoints'[t].last
        IN Len(new.messages) > Len(old.messages) =>
             \A k \in ReportKeys :
                 IF k = C12_Key(node)
                 THEN k \in DOMAIN new.compliance_reports
                        => new.compliance_reports[k]
                             = new.messages[Len(new.messages)].text
                 ELSE /\ (k \in DOMAIN new.compliance_reports)
                            <=> (k \in DOMAIN old.compliance_reports)
                      /\ k \in DOMAIN old.compliance_reports
                            => new.compliance_reports[k] = old.compliance_reports[k]

\* C12: a cycle resumed from content feedback with run_policy, run_design or
\* run_caption executes that review node; when it runs to its end the
\* node's own report key holds the node's reply and the cycle ends with the
\* status content_feedback; and whenever a node's update is committed, every
\* report key other than the node's own is present exactly when it was
\* before, with the value it had before.
C12_ReportFrame == []C12_EndsAtContentFeedback /\ [][C12_ReportStep]_vars

\* a design review has run to its end after a policy review: both keys are
\* there and the policy report is the older one
C12_Witness ==
    \E c \in Calls :
        LET v == checkpoints[calls[c].thread_id].values
        IN /\ C12_Cycle(c)
           /\ calls[c].action = "run_design"
           /\ RanToEnd(c)
           /\ DOMAIN v.compliance_reports = {"policy", "design"}
           /\ v.compliance_reports["policy"].n = 3
           /\ v.compliance_reports["design"].n = 4

\* ------------------------------------------------------------------ C13
\* the cycle of the scenario: paused at content feedback with a video as
\* content_result, resumed with post_social_instagram
C13_Cycle(c) ==
    /\ ResumedFrom(c, "feedback_content")
    /\ calls[c].action = "post_social_instagram"
    /\ IsVideo(checkpoints[calls[c].thread_id].values.content_result)

\* the last history entry is Publish's failure message for an Instagram video
C13_FailedVideoPost(t) ==
    LET v == checkpoints[t].values
        n == Len(v.messages)
    IN /\ n > 0
       /\ v.messages[n].node = "social_post_node"
       /\ v.messages[n].text.kind
             \in {"social_failed_instagram_video", "social_download_failed"}
       /\ v.status = "post_social_instagram"
       /\ IsVideo(v.content_result)

C13_FailureReported ==
    \A c \in Calls :
        C13_Cycle(c) =>
            /\ calls[c].ran = <<"social_post_node">>
            /\ RanToEnd(c) =>
                 LET t == calls[c].thread_id
                     v == checkpoints[t].values
                     out == v.messages[Len(v.messages)].text
                 IN /\ C13_FailedVideoPost(t)
                    /\ ~PublisherCalled(out.kind)
                    /\ v.assistant_response = out
                    /\ EndedWithStatus(c, "content_feedback")
                    /\ PausedAt(t, "feedback_content")

C13_ResumeStep ==
    \A t \in Ids, a \in ResumeActionLiteral :
        (C13_FailedVideoPost(t) /\ resume_workflow_stream(t, a, None)) =>
            /\ run_configs'[t] = ResumeRun(a, None)
            /\ last_response' = Response("resume", t, "200")

\* C13: a cycle resumed from content feedback with post_social_instagram while
\* content_result is a video executes Publish alone; when it runs to its end,
\* Publish's reply is a failure message (the platform restriction, or the
\* failed download of the video) that is the last history entry and
\* assistant_response, no publisher was called, the cycle ends with the
\* status content_feedback paused before feedback_content, and every
\* resume that follows is accepted.
C13_InstagramVideo == []C13_FailureReported /\ [][C13_ResumeStep]_vars

\* the platform restriction was reported and a further resume was accepted
C13_Witness ==
    \E t \in Ids :
        LET v == checkpoints[t].values
        IN /\ C13_FailedVideoPost(t)
           /\ v.messages[Len(v.messages)].text.kind = "social_failed_instagram_video"
           /\ PausedAt(t, "feedback_content")
           /\ run_configs[t] = ResumeRun("run_policy", None)
           /\ last_response = Response("resume", t, "200")
           /\ ~InFlight(t)

C15_IsPrefix(old, new) ==
    /\ Len(old) <= Len(new)
    /\ \A i \in 1..Len(old) : new[i] = old[i]

\* C15: in every step the history of every session's checkpoint extends the
\* history it had: the old entries stay where they were, unchanged; at most
\* one entry is added, and it is the entry of the node whose update the step
\* commits; and a cycle that runs its node to the end adds exactly one.
C15_HistoryAppendOnly ==
    [][\A t \in Ids :
          LET old == checkpoints[t].values.messages
              new == checkpoints'[t].values.messages
          IN /\ C15_IsPrefix(old, new)
             /\ Len(new) <= Len(old) + 1
             /\ Len(new) = Len(old) + 1 =>
                   /\ new[Len(new)].node = checkpoints'[t].last
                   /\ new[Len(new)].node \in WorkNodes
             /\ \A c \in Calls :
                   (calls'[c].thread_id = t /\ ~RanToEnd(c) /\ RanToEnd(c)') =>
                       /\ Len(new) = Len(old) + 1
                       /\ new[Len(new)].node = calls'[c].node]_vars

\* a failed publish has appended its message to a history of two entries
C15_Witness ==
    \E t \in Ids :
        LET v == checkpoints[t].values
        IN /\ Len(v.messages) = 3
           /\ v.messages[1].node = "ideation_node"
           /\ v.messages[2].node = "content_generation_node"
           /\ v.messages[3] = Msg("social_post_node", Text("social_download_failed", 3))

\* ------------------------------------------------------------------ C16
\* C16: in every step, every report key present in a session's checkpoint is
\* present in the checkpoint after the step.
C16_ReportKeysStay ==
    [][\A t \in Ids :
          DOMAIN checkpoints[t].values.compliance_reports
              \subseteq DOMAIN checkpoints'[t].values.compliance_reports]_vars

\* the policy report is still there after a new plan and new content
C16_Witness ==
    \E t \in Ids :
        LET v == checkpoints[t].values
        IN /\ Len(v.messages) = 5
           /\ [i \in 1..5 |-> v.messages[i].node]
                 = <<"ideation_node", "content_generation_node",
                     "policy_review_node", "ideation_node",
                     "content_generation_node">>
           /\ "policy" \in DOMAIN v.compliance_reports
           /\ v.compliance_reports["policy"] = v.messages[3].text
           /\ v.content_result = v.messages[5].text

\* ------------------------------------------------------------------ C17
\* C17: a cycle that executed a node never ends with an error event: the
\* failure of the node's collaborator has become a message of the node, and
\* the cycle ends with a status event.
C17_FailureCaught ==
    \A c \in Calls :
        (Ended(c) /\ calls[c].ran # <<>>) => Terminal(c).event = "status"

\* ------------------------------------------------------------------ C18
\* the stream calls that have a cycle in flight for session t
C18_InFlight(t) ==
    {c \in DOMAIN calls : calls[c].pc # "idle" /\ calls[c].thread_id = t}

\* C18: at most one cycle is in flight per session id: while a stream call is
\* being served for an id, no second one for that id gets past the handler.
C18_OneCycleInFlight ==
    \A t \in Ids : Cardinality(C18_InFlight(t)) <= 1

\* ------------------------------------------------------------------ C19
\* the resume (a, comment) has been executed for session t: a stream applied
\* it, the node it routed to ran and its update is committed, the cycle is
\* over and its pending request is gone
C19_Executed(t, a, comment) ==
    LET cp == checkpoints[t]
    IN /\ cp.exists
       /\ ~InFlight(t)
       /\ run_configs[t] = NoRun
       /\ cp.values.status = a
       /\ comment # None => cp.values.human_comment = comment
       /\ cp.last \in WorkNodes
       /\ cp.next = EdgeFrom(cp.last)
       /\ Len(cp.values.messages) > 1
       /\ cp.values.messages[Len(cp.values.messages)].node = cp.last

\* C19: a resume that repeats the resume already executed for the session is
\* rejected: it is not answered with the pending acknowledgement and it
\* registers no pending request (so that no stream can execute it again).
C19_ReplayRejected ==
    [][\A t \in Ids, body \in ResumeInputs :
          (C19_Executed(t, body[1], body[2])
             /\ resume_workflow_stream(t, body[1], body[2])) =>
              /\ last_response'.code # "200"
              /\ run_configs'[t] = run_configs[t]]_vars

\* ------------------------------------------------------------------ C20
\* a stream call for an id without pending request is answered with the error
\* body, starts no cycle and changes no checkpoint
C20_ErrorStep ==
    \A c \in Calls, t \in Ids, reroute \in BOOLEAN :
        (run_configs[t] = NoRun /\ stream_workflow(c, t, reroute)) =>
            /\ last_response' = Response("stream", t, "error_json")
            /\ UNCHANGED <<checkpoints, calls, run_configs>>

\* the pending request a stream call was started for is gone once its cycle
\* is over
C20_Consumed ==
    \A t \in Ids :
        (last_response = Response("stream", t, "200") /\ ~InFlight(t)) =>
            run_configs[t] = NoRun

\* C20: a stream call for a session id without pending request (none was ever
\* registered, or the cycle of an earlier stream call has consumed it) is
\* answered with an error, executes no node and leaves the checkpoints as
\* they are.
C20_StreamWithoutPending == []C20_Consumed /\ [][C20_ErrorStep]_vars

\* the second stream call for one resume: the session is paused, the first
\* call's cycle is over, the answer is the error body
C20_Witness ==
    \E t \in Ids :
        /\ last_response = Response("stream", t, "error_json")
        /\ PausedAt(t, "feedback_content")
        /\ checkpoints[t].values.status = "approve_ideation"
        /\ run_configs[t] = NoRun
        /\ ~InFlight(t)

\* ------------------------------------------------------------------ C21
\* the stream calls whose cycle was started from session t's start request
\* and has executed a node. A session has one start request only (create
\* draws a new id for each), so these cycles were all driven by it.
C21_StartCycles(t) ==
    {c \in DOMAIN calls : /\ calls[c].pc # "idle"
                          /\ calls[c].thread_id = t
                          /\ calls[c].event_type = "start"
                          /\ calls[c].ran # <<>>}

\* C21: a pending request drives at most one cycle: the first stream call
\* that executes it discards it, so never two stream calls have each run a
\* node for the start request of one session.
C21_OneCyclePerPending ==
    \A t \in Ids : Cardinality(C21_StartCycles(t)) <= 1

\* ------------------------------------------------------------------ C22
\* C22: when a cycle has ended, the session is paused at one of the two
\* interrupt points or finished; it is never left in front of a work node.
C22_EndsAtInterruptOrFinished ==
    \A c \in Calls :
        Ended(c) =>
            \/ Paused(calls[c].thread_id)
            \/ Finished(calls[c].thread_id)

\* ------------------------------------------------------------------ C23
\* the step changes something of session t: its pending request, its
\* checkpoint, or a stream call that serves it (its position, its events)
C23_Changed(t) ==
    \/ run_configs'[t] # run_configs[t]
    \/ checkpoints'[t] # checkpoints[t]
    \/ \E c \in DOMAIN calls :
          /\ calls'[c] # calls[c]
          /\ calls[c].thread_id = t \/ calls'[c].thread_id = t

\* the events of a stream call name the session the call serves and the
\* nodes the call itself has run
C23_OwnEvents ==
    \A c \in DOMAIN calls :
        LET e == calls[c].events
        IN \A i \in 1..Len(e) :
               /\ e[i].event \in {"start", "resume"} => e[i].data = calls[c].thread_id
               /\ e[i].event = "token" => e[i].data = calls[c].node

\* C23: every step (a create, a resume, a stream call or a step of a cycle)
\* is an operation on one session: it leaves the pending request, the
\* checkpoint and the stream calls of every other session as they were; and
\* the events of a stream call are those of its own session.
C23_SessionsIndependent ==
    /\ []C23_OwnEvents
    /\ [][\A a, b \in DOMAIN run_configs :
             (a # b /\ C23_Changed(a)) => ~C23_Changed(b)]_vars

\* the cycles of two sessions overlap: both have run Plan, one has ended with
\* its status while the other is handing over its message
C23_Witness ==
    /\ calls["c1"].thread_id = "t1"
    /\ calls["c2"].thread_id = "t2"
    /\ calls["c1"].pc = "cleanup"
    /\ calls["c1"].events[Len(calls["c1"].events)] = Event("status", "ideation_feedback")
    /\ calls["c2"].pc = "msgs"
    /\ calls["c2"].ran = <<"ideation_node">>
    /\ PausedAt("t1", "feedback_ideation")
    /\ checkpoints["t2"].next = "ideation_node"
    /\ run_configs["t1"].type = "resume"

\* ------------------------------------------------------------------ C24
\* C24: a resume cycle that has ended with an error event has left the
\* session where the stream call found it: the engine position of the
\* checkpoint is the position it had before the call.
C24_LastGoodCheckpoint ==
    \A c \in Calls :
        (EndedWithError(c) /\ calls[c].event_type = "resume") =>
            checkpoints[calls[c].thread_id].next = calls[c].origin

\* ------------------------------------------------------------------ C25
\* the last history entry is Publish's message about the failed download
C25_DownloadFailed(v) ==
    /\ Len(v.messages) > 0
    /\ v.messages[Len(v.messages)]
          = Msg("social_post_node", Text("social_download_failed", Len(v.messages)))

\* the step that commits Publish's update after a failed download
C25_DownloadStep ==
    \A t \in Ids :
        LET old == checkpoints[t].values
            new == checkpoints'[t].values
        IN (Len(new.messages) > Len(old.messages) /\ C25_DownloadFailed(new)) =>
             /\ new.messages = Append(old.messages, new.messages[Len(new.messages)])
             /\ new.assistant_response = new.messages[Len(new.messages)].text
             /\ new.content_result = old.content_result
             /\ new.ideation_brief = old.ideation_brief
             /\ new.compliance_reports = old.compliance_reports
             /\ checkpoints'[t].next = "feedback_content"

C25_ResumeStep ==
    \A t \in Ids, a \in ResumeActionLiteral :
        (C25_DownloadFailed(checkpoints[t].values)
           /\ resume_workflow_stream(t, a, None)) =>
            /\ run_configs'[t] = ResumeRun(a, None)
            /\ last_response' = Response("resume", t, "200")

C25_EndsAtContentFeedback ==
    \A c \in Calls :
        (RanToEnd(c) /\ calls[c].node = "social_post_node"
           /\ C25_DownloadFailed(checkpoints[calls[c].thread_id].values)) =>
            /\ EndedWithStatus(c, "content_feedback")
            /\ PausedAt(calls[c].thread_id, "feedback_content")

\* C25: when Publish's download fails, the step that commits its update adds
\* the failure message to the history and makes it assistant_response,
\* leaves content_result, ideation_brief and every report as they were and
\* leads to feedback_content; the cycle ends with the status
\* content_feedback, and the resumes that follow are accepted. (The failure
\* message is the text of the branch that returns before any publisher is
\* called.)
C25_DownloadFailure ==
    /\ []C25_EndsAtContentFeedback
    /\ [][C25_DownloadStep /\ C25_ResumeStep]_vars

\* the download failed after a policy review: the report and the content are
\* still there and the next resume has been accepted
C25_Witness ==
    \E t \in Ids :
        LET v == checkpoints[t].values
        IN /\ C25_DownloadFailed(v)
           /\ Len(v.messages) = 4
           /\ DOMAIN v.compliance_reports = {"policy"}
           /\ v.compliance_reports["policy"] = v.messages[3].text
           /\ v.content_result = v.messages[2].text
           /\ PausedAt(t, "feedback_content")
           /\ run_configs[t] = ResumeRun("run_policy", None)
           /\ ~InFlight(t)

\* ------------------------------------------------------------------ C26
\* while a cycle is being served, the status of the session's checkpoint is
\* the label of the resume the cycle was started for (none for the start
\* cycle)
C26_StatusIsResumeLabel ==
    \A c \in Calls :
        calls[c].pc # "idle" =>
            checkpoints[calls[c].thread_id].values.status
                = IF calls[c].event_type = "resume" THEN calls[c].action
                  ELSE NoAction

\* a step that changes the status of a checkpoint is the stream handler
\* applying the pending resume: it writes that resume's label
C26_StatusStep ==
    \A t \in Ids :
        checkpoints'[t].values.status # checkpoints[t].values.status =>
            /\ run_configs[t].type = "resume"
            /\ checkpoints'[t].values.status = run_configs[t].action
            /\ Len(checkpoints'[t].values.messages)
                  = Len(checkpoints[t].values.messages)
            /\ \E c \in Calls : /\ calls[c].pc = "idle"
                                /\ calls'[c].pc = "marker"
                                /\ calls'[c].action = run_configs[t].action

\* C26: status is set by every resume cycle to the label of its resume and
\* written by nothing else: during and after a resume cycle the checkpoint's
\* status is that label, and no step that commits a node's update changes
\* it.
C26_ActionSetByResumeOnly ==
    []C26_StatusIsResumeLabel /\ [][C26_StatusStep]_vars

\* a policy review has run to its end after two earlier resumes with other
\* labels
C26_Witness ==
    \E c \in Calls :
        /\ ResumedFrom(c, "feedback_content")
        /\ calls[c].action = "run_policy"
        /\ RanToEnd(c)
        /\ checkpoints[calls[c].thread_id].values.status = "run_policy"
        /\ Len(checkpoints[calls[c].thread_id].values.messages) = 3

\* ------------------------------------------------------------------ C27
\* C27: a resume cycle whose resume carried no comment and that ran Plan to
\* the end has run it in the normal mode, not as a revision driven by the
\* comment of an earlier resume.
C27_CommentConsumedOnce ==
    \A c \in Calls :
        (/\ calls[c].event_type = "resume"
         /\ calls[c].human_comment = None
         /\ calls[c].node = "ideation_node"
         /\ RanToEnd(c)) =>
            LET v == checkpoints[calls[c].thread_id].values
            IN v.messages[Len(v.messages)].text.kind = "plan"

\* ------------------------------------------------------------------ C28
\* the nodes that run after the content exists, Terminate included
C28_PostGeneration ==
    {"policy_review_node", "design_review_node", "caption_generation_node",
     "social_post_node", "linkedin_post_node", "node_to_terminate"}

\* C28: in every step that commits the update of a node to a session's
\* checkpoint (the state the node was given), human_request,
\* human_comment and status are as before; the review, caption, publish and
\* closing nodes leave ideation_brief and content_result as before; Plan
\* leaves content_result and the reports as before; GenerateContent leaves
\* ideation_brief and the reports as before; and the position after the
\* step is the one the node's outgoing edge gives, whatever the node
\* returned.
C28_NodesWriteOwnFields ==
    [][\A t \in Ids :
          LET old == checkpoints[t].values
              new == checkpoints'[t].values
              node == new.messages[Len(new.messages)].node
          IN (checkpoints[t].exists /\ Len(new.messages) > Len(old.messages)) =>
               /\ new.human_request = old.human_request
               /\ new.human_comment = old.human_comment
               /\ new.status = old.status
               /\ node \in C28_PostGeneration =>
                     /\ new.ideation_brief = old.ideation_brief
                     /\ new.content_result = old.content_result
               /\ node = "ideation_node" =>
                     /\ new.content_result = old.content_result
                     /\ new.compliance_reports = old.compliance_reports
               /\ node = "content_generation_node" =>
                     /\ new.ideation_brief = old.ideation_brief
                     /\ new.compliance_reports = old.compliance_reports
               /\ checkpoints'[t].next = EdgeFrom(node)]_vars

\* Plan has run again after the content was generated: the content of the
\* earlier round is still there
C28_Witness ==
    \E t \in Ids :
        LET v == checkpoints[t].values
        IN /\ Len(v.messages) = 3
           /\ v.messages[2].node = "content_generation_node"
           /\ v.messages[3].node = "ideation_node"
           /\ v.content_result = v.messages[2].text
           /\ v.ideation_brief.n = 3
           /\ PausedAt(t, "feedback_ideation")

\* ------------------------------------------------------------------ C29
\* the nodes whose messages the claim calls observable
C29_Observable ==
    {"ideation_node", "content_generation_node", "policy_review_node",
     "design_review_node", "caption_generation_node", "social_post_node"}

\* C29: every token event of a cycle comes from the observable node the
\* cycle is running, never from an interrupt node or from Terminate; a cycle
\* resumed from content feedback with approve_content runs Terminate and,
\* once ended, has emitted the resume marker and the status finished and
\* nothing else.
C29_TokensFromObservableNodes ==
    \A c \in Calls :
        LET e == calls[c].events
        IN /\ \A i \in 1..Len(e) :
                 e[i].event = "token" =>
                     /\ e[i].data \in C29_Observable
                     /\ e[i].data = calls[c].node
           /\ (ResumedFrom(c, "feedback_content")
                 /\ calls[c].action = "approve_content") =>
                 /\ calls[c].node = "node_to_terminate"
                 /\ \A i \in 1..Len(e) : e[i].event # "token"
                 /\ Ended(c) =>
                       e = <<Event("resume", calls[c].thread_id),
                             Event("status", "finished")>>

\* Terminate's closing message has been handed to the loop and no token
\* event was emitted for it
C29_Witness ==
    \E c \in Calls :
        /\ ResumedFrom(c, "feedback_content")
        /\ calls[c].action = "approve_content"
        /\ calls[c].pc = "msgs"
        /\ calls[c].msgs = 0
        /\ calls[c].events = <<Event("resume", calls[c].thread_id)>>

\* ------------------------------------------------------------------ C30
\* C30: a cycle resumed from content feedback with feedback_content and a
\* comment, whose Plan ran to the end, has run Plan in revision mode: the
\* reply is the revision made from the comment.
C30_RevisionAfterContentFeedback ==
    \A c \in Calls :
        (C4_Cycle(c) /\ RanToEnd(c)) =>
            LET v == checkpoints[calls[c].thread_id].values
            IN v.messages[Len(v.messages)]
                 = Msg("ideation_node", Text("revised_plan", Len(v.messages)))

\* ------------------------------------------------------------------ C31
\* C31: every cycle that has ended with a status event has executed exactly
\* one node: Plan in a start cycle, and in a resume cycle the node the router
\* of the interrupt point picks for the resume's action.
C31_ExactlyOneNode ==
    \A c \in Calls :
        (Ended(c) /\ Terminal(c).event = "status") =>
            /\ Len(calls[c].ran) = 1
            /\ calls[c].event_type = "start" => calls[c].ran = <<"ideation_node">>
            /\ ResumedFrom(c, "feedback_ideation") =>
                  calls[c].ran = <<router_after_ideation([status |-> calls[c].action])>>
            /\ ResumedFrom(c, "feedback_content") =>
                  calls[c].ran = <<router_after_content([status |-> calls[c].action])>>

\* ------------------------------------------------------------------ C32
\* C32: a cycle that executes GenerateContent is a resume cycle that found
\* the session paused before feedback_ideation and whose resume carried the
\* action approve_ideation.
C32_ContentOnlyAfterApproval ==
    \A c \in Calls :
        calls[c].node = "content_generation_node" =>
            /\ ResumedFrom(c, "feedback_ideation")
            /\ calls[c].action = "approve_ideation"

\* ------------------------------------------------------------------ C33
\* C33: a cycle that executes Terminate, or that ends with the status
\* finished, is a resume cycle that found the session paused before
\* feedback_content and whose resume carried the action approve_content; and
\* the history of a finished session holds a reply of GenerateContent.
C33_FinishOnlyAfterApproval ==
    /\ \A c \in Calls :
          (calls[c].node = "node_to_terminate" \/ EndedWithStatus(c, "finished")) =>
              /\ ResumedFrom(c, "feedback_content")
              /\ calls[c].action = "approve_content"
    /\ \A t \in Ids :
          Finished(t) =>
              \E i \in 1..Len(checkpoints[t].values.messages) :
                  checkpoints[t].values.messages[i].node = "content_generation_node"

\* ------------------------------------------------------------------ C34
\* the nodes that work on the generated content
C34_ContentNodes ==
    {"policy_review_node", "design_review_node", "caption_generation_node",
     "social_post_node"}

\* C34: in every checkpoint paused before feedback_ideation the brief is
\* set; in every checkpoint paused before feedback_content the brief and
\* content_result are set; and whenever a cycle executes PolicyReview,
\* DesignReview, Caption or Publish, content_result is set in the state the
\* node works on.
C34_ArtifactBeforeReview ==
    /\ \A t \in Ids :
          /\ PausedAt(t, "feedback_ideation") =>
                checkpoints[t].values.ideation_brief # None
          /\ PausedAt(t, "feedback_content") =>
                /\ checkpoints[t].values.ideation_brief # None
                /\ checkpoints[t].values.content_result # None
    /\ \A c \in Calls :
          calls[c].node \in C34_ContentNodes =>
              checkpoints[calls[c].thread_id].values.content_result # None

\* a policy review has run to its end on content that is the failure message
\* of the content agent
C34_Witness ==
    \E c \in Calls :
        LET t == calls[c].thread_id
            v == checkpoints[t].values
        IN /\ calls[c].node = "policy_review_node"
           /\ RanToEnd(c)
           /\ PausedAt(t, "feedback_content")
           /\ v.ideation_brief = v.messages[1].text
           /\ v.content_result = Msg("content_generation_node", Text("error_text", 2)).text

\* ------------------------------------------------------------------ C35
\* the reply of the most recent GenerateContent execution in a history
C35_LatestArtifact(v) ==
    LET idx == {i \in 1..Len(v.messages) :
                  v.messages[i].node = "content_generation_node"}
    IN v.messages[CHOOSE i \in idx : \A j \in idx : j <= i].text

\* C35: whenever a cycle executes PolicyReview, DesignReview, Caption or
\* Publish on a state whose content_result is set, the content the node
\* reviews and the media locator it downloads are the reply of the most
\* recent GenerateContent execution, before and after the node's update is
\* committed; and the reply of a Publish that ran to its end fits that
\* artifact: the Instagram video restriction only for a video, and a
\* download that succeeded only for a URL.
C35_OperatesOnArtifact ==
    \A c \in Calls :
        LET v == checkpoints[calls[c].thread_id].values
        IN (calls[c].node \in C34_ContentNodes /\ Truthy(v.content_result)) =>
             /\ ReviewContent(v) = C35_LatestArtifact(v)
             /\ MediaLocator(v) = C35_LatestArtifact(v)
             /\ (calls[c].node = "social_post_node" /\ RanToEnd(c)) =>
                   LET out == v.messages[Len(v.messages)].text.kind
                   IN /\ out = "social_failed_instagram_video"
                          => IsVideo(C35_LatestArtifact(v))
                      /\ out # "social_download_failed"
                          => IsUrl(C35_LatestArtifact(v))

\* Publish has posted the generated image after a policy review whose report
\* was the latest reply
C35_Witness ==
    \E c \in Calls :
        LET v == checkpoints[calls[c].thread_id].values
        IN /\ calls[c].node = "social_post_node"
           /\ RanToEnd(c)
           /\ Len(v.messages) = 4
           /\ v.messages[2] = Msg("content_generation_node", Text("image_url", 2))
           /\ v.messages[3].node = "policy_review_node"
           /\ v.messages[4] = Msg("social_post_node", Text("social_result", 4))
           /\ v.content_result = v.messages[2].text

\* ------------------------------------------------------------------ C37
\* C37: linkedin_post_node is never executed: neither router returns its
\* name for any label, no checkpoint has it as the node to run next, no
\* cycle runs it, no history holds a reply of it and no checkpoint has the
\* report key linkedin.
C37_LinkedinNodeNeverRuns ==
    /\ \A a \in ActionInputs :
          /\ router_after_ideation([status |-> a]) # "linkedin_post_node"
          /\ router_after_content([status |-> a]) # "linkedin_post_node"
    /\ \A c \in Calls : calls[c].node # "linkedin_post_node"
    /\ \A t \in Ids :
          LET v == checkpoints[t].values
          IN /\ checkpoints[t].next # "linkedin_post_node"
             /\ "linkedin" \notin DOMAIN v.compliance_reports
             /\ \A i \in 1..Len(v.messages) :
                   v.messages[i].node # "linkedin_post_node"

\* a resume with post_linkedin from content feedback has run Publish to its
\* end: the post was made by social_post_node and reported under social
C37_Witness ==
    \E c \in Calls :
        LET v == checkpoints[calls[c].thread_id].values
        IN /\ ResumedFrom(c, "feedback_content")
           /\ calls[c].action = "post_linkedin"
           /\ RanToEnd(c)
           /\ calls[c].ran = <<"social_post_node">>
           /\ DOMAIN v.compliance_reports = {"social"}
           /\ v.compliance_reports["social"].kind = "social_result"

\* ------------------------------------------------------------------ C38
\* the pending request the cycle of call c was started for
C38_Executed(c) ==
    IF calls[c].event_type = "start"
    THEN StartRun(calls[c].input_state)
    ELSE ResumeRun(calls[c].action, calls[c].human_comment)

\* C38: the cleanup of a cycle discards only the pending request the cycle
\* executed: when the session's pending request is another one by then (a
\* resume registered while the cycle was running), the cleanup leaves it in
\* place.
C38_DiscardsOnlyExecuted ==
    [][\A c \in Calls :
          (calls[c].pc = "cleanup" /\ calls'[c].pc = "idle") =>
              LET t == calls[c].thread_id
              IN run_configs[t] # C38_Executed(c) =>
                     run_configs'[t] = run_configs[t]]_vars

\* ------------------------------------------------------------------ C39
\* a stream call for a session with a pending request is answered with the
\* event stream and starts a cycle
C39_StartStep ==
    \A c \in Calls, t \in Ids, reroute \in BOOLEAN :
        (run_configs[t] # NoRun /\ stream_workflow(c, t, reroute)) =>
            /\ last_response' = Response("stream", t, "200")
            /\ calls'[c].pc = "marker"
            /\ calls'[c].thread_id = t

\* the step that ends a generator leaves no pending request for its session
C39_CleanupStep ==
    \A c \in Calls :
        (Ended(c) /\ calls'[c].pc = "idle") =>
            run_configs'[calls[c].thread_id] = NoRun

\* a cycle executes at most one node
C39_NoLoop == \A c \in Calls : Len(calls[c].ran) <= 1

====
